---- MODULE Spec2Model ----
(***************************************************************************)
(* The bridge's multi-client hub (UnityConnection, server mode): the TCP   *)
(* front-end with per-client receive buffers, registration, active-client  *)
(* election, and the correlated request/response router, together with the *)
(* command-handler path that turns an MCP tool call into a routed request. *)
(***************************************************************************)
EXTENDS Integers, Sequences, FiniteSets, TLC

\* ------------------------------------------------------------------ bounds
\* Connections accepted over a run and requests issued over a run.
MaxConns == 2
MaxReq == 2

\* ------------------------------------------------------------------ values
NULL == "<null>"

\* `unity-${socket.remoteAddress}:${socket.remotePort}` of the peers that
\* connect, in the order in which the addresses first appear.
AddrSeq == <<"unity-127.0.0.1:55501", "unity-127.0.0.1:55502">>
Addrs == {AddrSeq[i] : i \in DOMAIN AddrSeq}

\* The persistent ids editors put in their registration message.
RegIds == {"proj-x"}

\* JavaScript truthiness of a string-or-null value (`!this.activeClientId`).
Falsy(x) == x = NULL \/ x = ""

\* (++this.requestId).toString() for the ids the bounds allow.
Digits == <<"1", "2", "3", "4", "5", "6", "7", "8", "9">>
ToStr(n) == Digits[n]
ReqIds == {ToStr(n) : n \in 1..MaxReq}

\* ------------------------------------------------------------ byte stream
\* A read is a sequence of tokens: a complete JSON object, a newline, or
\* text that is not JSON.
Tok(kind, type, status, result, id, clientId, clientInfo) ==
    [kind |-> kind, type |-> type, status |-> status, result |-> result,
     id |-> id, clientId |-> clientId, clientInfo |-> clientInfo]
NL == Tok("nl", NULL, NULL, NULL, NULL, NULL, NULL)
\* The bytes of an object cut in two at some interior position: its first
\* and its second part.
Frag(m, part) == [kind |-> "frag", of |-> m, part |-> part]
BAD == Tok("bad", NULL, NULL, NULL, NULL, NULL, NULL)
Registration(x) == Tok("json", "registration", NULL, NULL, NULL, x, "Demo")
Success(id) == Tok("json", NULL, "success", "result", id, NULL, NULL)
ErrorEnvelope(id) == Tok("json", NULL, "error", NULL, id, NULL, NULL)
Notification == Tok("json", NULL, NULL, NULL, NULL, NULL, NULL)

Msgs == {Registration(x) : x \in RegIds}
          \cup {Success(i) : i \in ReqIds}
          \cup {ErrorEnvelope(i) : i \in ReqIds}
          \cup {Notification}

\* What one 'data' event may carry: whole frames, newline-free as the editor
\* sends them or newline-terminated, and a line that is not JSON.
Chunks == {<<m>> : m \in Msgs} \cup {<<Notification, NL>>, <<BAD, NL>>}
            \cup {<<Registration(x), NL, Notification, NL>> : x \in RegIds}

\* JSON.parse of a text: it succeeds exactly on one complete JSON object,
\* whole or put together from its two parts.
IsWhole(text) == Len(text) = 1 /\ text[1].kind = "json"
IsJoined(text) ==
    /\ Len(text) = 2
    /\ text[1].kind = "frag" /\ text[1].part = 1
    /\ text[2].kind = "frag" /\ text[2].part = 2
    /\ text[1].of = text[2].of
ParseFails(text) == ~(IsWhole(text) \/ IsJoined(text))
Parsed(text) == IF IsWhole(text) THEN text[1] ELSE text[1].of

\* buffer.indexOf('\n'), 0 when absent (positions are 1-based here).
IndexOfNL(buffer) ==
    IF \E i \in 1..Len(buffer) : buffer[i] = NL
    THEN CHOOSE i \in 1..Len(buffer) :
             buffer[i] = NL /\ \A j \in 1..(i - 1) : buffer[j] # NL
    ELSE 0

\* ---------------------------------------------------- Map<string, Socket>
\* A JavaScript Map keeps insertion order; the client map is a sequence of
\* entries [id, sock] in that order. A socket is the index of its connection.
KeySet(m) == {m[i].id : i \in 1..Len(m)}
MapHas(m, k) == k \in KeySet(m)
MapGet(m, k) ==
    IF MapHas(m, k) THEN m[CHOOSE i \in 1..Len(m) : m[i].id = k].sock ELSE 0
MapDelete(m, k) == SelectSeq(m, LAMBDA e : e.id # k)
MapSet(m, k, v) ==
    IF MapHas(m, k)
    THEN [i \in 1..Len(m) |-> IF m[i].id = k THEN [id |-> k, sock |-> v] ELSE m[i]]
    ELSE Append(m, [id |-> k, sock |-> v])

\* The buffer and info maps are only looked up by key: functions.
FnSet(f, k, v) == [x \in (DOMAIN f) \cup {k} |-> IF x = k THEN v ELSE f[x]]
FnDelete(f, k) == [x \in (DOMAIN f) \ {k} |-> f[x]]
FnGetOr(f, k, d) == IF k \in DOMAIN f THEN f[k] ELSE d
EmptyFn == [x \in {} |-> NULL]

VARIABLES
    server,             \* this.server: "null", "listening" or "bindFailed"
    sockets,            \* the connections accepted so far: [addr, state]
    clients,            \* this.clients
    clientDataBuffers,  \* this.clientDataBuffers
    clientInfoMap,      \* this.clientInfoMap
    activeClientId,     \* this.activeClientId
    pendingRequests,    \* keys of this.pendingRequests
    requestId,          \* this.requestId
    target,             \* per issued id: the socket its write went to (0: none)
    writeCbs,           \* ids whose socket.write callback has not run yet
    timers,             \* ids whose 30 s timer is armed
    completions,        \* per issued id: how often its resolve/reject was called
    last,               \* what the latest operation produced: the value or
                        \* error it returned, the resolve/reject calls it
                        \* made and the events it emitted
    stream,             \* what a peer sends over one connection: the objects
                        \* and how they are framed
    wire,               \* the bytes of it no 'data' event has carried yet
    delivered,          \* the objects message processing has been given
    incompleteData,     \* McpServer.incompleteData (editor side)
    commandHandlers,    \* McpServer.commandHandlers: prefix -> Enabled
    mainThreadQueue,    \* McpServer.mainThreadQueue: the commands queued
    replies,            \* the replies the editor has written to the bridge
    executed,           \* the Execute calls the editor's handlers have had
    resourceHandlers,   \* McpServer.resourceHandlers: name -> Enabled
    connections,        \* the control connections the editor has accepted
    client,             \* McpServer.client: index in connections, 0 for null
    repliedTo,          \* per reply, the connection it was written to
    enabledState,       \* the bridge registries' enabledState maps
    template,           \* a prompt definition's template
    params,             \* the parameters a prompt request carries, in
                        \* Object.entries order
    rendered,           \* the text the prompt callback returned
    returned,           \* what handler.execute gave the tool callback
    running,            \* McpServer.running
    listener,           \* McpServer.listener: index in listeners, 0 for null
    listeners,          \* the TcpListeners created so far: the thread that
                        \* created it and its state
    serverThreads,      \* the server threads started so far: where each is in
                        \* RunServer and whether its token has been cancelled
    mainThread,         \* where the main thread is: "idle", or inside Start()
                        \* or Stop()
    acceptedBy          \* per control connection, the thread that accepted it

framingVars == <<stream, wire, delivered>>
threadVars == <<running, listener, listeners, serverThreads, mainThread,
                acceptedBy>>
editorVars == <<incompleteData, commandHandlers, mainThreadQueue, replies,
                executed, resourceHandlers, connections, client, repliedTo,
                threadVars>>
surfaceVars == <<enabledState, template, params, rendered, returned>>
\* What the hub's operations leave alone: the peer stream, the editor-side
\* server and the bridge's handler registries.
otherVars == <<framingVars, editorVars, surfaceVars>>

vars == <<server, sockets, clients, clientDataBuffers, clientInfoMap,
          activeClientId, pendingRequests, requestId, target, writeCbs,
          timers, completions, last, otherVars>>

\* The fields of the hub the message handlers read and write; processed
\* collects the messages a handler run has parsed and dispatched.
Hub == [clients |-> clients, buffers |-> clientDataBuffers,
        info |-> clientInfoMap, active |-> activeClientId,
        pending |-> pendingRequests, done |-> completions, calls |-> <<>>,
        events |-> <<>>, processed |-> <<>>]

Event(name, clientId) == [name |-> name, clientId |-> clientId]
Emit(h, name, clientId) == [h EXCEPT !.events = Append(@, Event(name, clientId))]

\* One call of a request's resolve or reject.
Call(id, kind, with) == [id |-> id, kind |-> kind, with |-> with]
Invoke(h, id, kind, with) ==
    [h EXCEPT !.done = [@ EXCEPT ![id] = @ + 1],
              !.calls = Append(@, Call(id, kind, with))]

\* ------------------------------------------------------- message handling
\* handleRegistration: move the record, the buffer and the active flag from
\* the id the caller passes to the id the message carries.
handleRegistration(h, clientId, message) ==
    LET newClientId == message.clientId
        socket == MapGet(h.clients, clientId)
        buffer == FnGetOr(h.buffers, clientId, <<>>)
    IN  IF socket = 0 THEN h
        ELSE Emit([h EXCEPT
                     !.clients = MapSet(MapDelete(@, clientId), newClientId, socket),
                     !.buffers = FnSet(FnDelete(@, clientId), newClientId, buffer),
                     !.info = FnSet(@, newClientId, message.clientInfo),
                     !.active = IF @ = clientId THEN newClientId ELSE @],
                  "clientRegistered", newClientId)

\* The two correlation branches share this: resolve the entry if it is pending.
ResolvePending(h, id, with) ==
    IF id \in h.pending
    THEN Invoke([h EXCEPT !.pending = @ \ {id}], id, "resolve", with)
    ELSE h

\* A processClientMessage that gives up on a client whose line does not parse.
processClientMessageDroppingClient(h, clientId, message) ==
    IF Len(message) = 0 THEN h
    ELSE IF ParseFails(message)
    THEN [h EXCEPT !.clients = MapDelete(@, clientId),
                   !.active = IF @ = clientId THEN NULL ELSE @]
    ELSE LET response == Parsed(message)
             hp == [h EXCEPT !.processed = Append(@, response)]
         IN
         IF response.type = "registration"
         THEN handleRegistration(hp, clientId, response)
         ELSE IF response.status = "success" /\ ~Falsy(response.result)
                   /\ ~Falsy(response.id)
         THEN ResolvePending(hp, response.id, "result")
         ELSE IF ~Falsy(response.id)
         THEN ResolvePending(hp, response.id, "response")
         ELSE Emit(hp, "message", clientId)
\* processClientMessage: one framed (trimmed) line from a client.
processClientMessage(h, clientId, message) ==
    IF Len(message) = 0 THEN h
    ELSE IF ParseFails(message) THEN h
    ELSE LET response == Parsed(message)
             hp == [h EXCEPT !.processed = Append(@, response)]
         IN
         IF response.type = "registration"
         THEN handleRegistration(hp, clientId, response)
         ELSE IF response.status = "success" /\ ~Falsy(response.result)
                   /\ ~Falsy(response.id)
         THEN ResolvePending(hp, response.id, "result")
         ELSE IF ~Falsy(response.id)
         THEN ResolvePending(hp, response.id, "response")
         ELSE Emit(hp, "message", clientId)

\* The while loop of handleClientData: one newline-terminated line per turn.
RECURSIVE DrainLines(_, _, _)
DrainLines(h, clientId, buffer) ==
    LET endIndex == IndexOfNL(buffer) IN
    IF endIndex = 0 THEN [h |-> h, buffer |-> buffer]
    ELSE LET message == SubSeq(buffer, 1, endIndex - 1)
             rest == SubSeq(buffer, endIndex + 1, Len(buffer))
             stored == [h EXCEPT !.buffers = FnSet(@, clientId, rest)]
         IN  DrainLines(processClientMessage(stored, clientId, message),
                        clientId, rest)

\* handleClientData: append the read, drain the lines, then try the tail as
\* a complete JSON value without a newline.
handleClientData(h, clientId, data) ==
    LET buffer == FnGetOr(h.buffers, clientId, <<>>) \o data
        drained == DrainLines([h EXCEPT !.buffers = FnSet(@, clientId, buffer)],
                              clientId, buffer)
    IN  IF Len(drained.buffer) > 0 /\ ~ParseFails(drained.buffer)
        THEN processClientMessage(
                 [drained.h EXCEPT !.buffers = FnSet(@, clientId, <<>>)],
                 clientId, drained.buffer)
        ELSE drained.h

\* A close handler that also rejects whatever is pending, as a hub with a
\* single connection would.
RECURSIVE RejectAll(_, _)
RejectAll(h, ids) ==
    IF ids = {} THEN h
    ELSE LET id == CHOOSE i \in ids : TRUE
         IN  RejectAll(Invoke([h EXCEPT !.pending = @ \ {id}], id, "reject",
                              "Connection closed"),
                       ids \ {id})
closeHandlerRejectingAll(h, clientId) ==
    LET c1 == MapDelete(h.clients, clientId)
        h1 == [h EXCEPT !.clients = c1,
                        !.buffers = FnDelete(@, clientId),
                        !.info = FnDelete(@, clientId),
                        !.active = IF @ = clientId
                                   THEN IF Len(c1) > 0 THEN c1[1].id ELSE NULL
                                   ELSE @]
    IN  Emit(RejectAll(h1, h1.pending), "clientDisconnected", clientId)

\* The socket 'close' handler, with the clientId its closure captured.
closeHandler(h, clientId) ==
    LET c1 == MapDelete(h.clients, clientId)
        h1 == [h EXCEPT !.clients = c1,
                        !.buffers = FnDelete(@, clientId),
                        !.info = FnDelete(@, clientId)]
        h2 == IF h1.active = clientId
              THEN [h1 EXCEPT !.active = IF Len(c1) > 0 THEN c1[1].id ELSE NULL]
              ELSE h1
    IN  Emit(h2, "clientDisconnected", clientId)

\* The connection listener of net.createServer, for a socket from clientId.
acceptHandler(h, clientId, socket) ==
    LET h1 == [h EXCEPT !.buffers = FnSet(@, clientId, <<>>),
                        !.clients = MapSet(@, clientId, socket)]
        h2 == IF Falsy(h1.active) THEN [h1 EXCEPT !.active = clientId] ELSE h1
    IN  Emit(h2, "clientConnected", clientId)

\* getConnectedClients(): one entry per key of the client map, in map order.
getConnectedClients(cl, active, info) ==
    [i \in 1..Len(cl) |-> [id |-> cl[i].id,
                           isActive |-> cl[i].id = active,
                           info |-> FnGetOr(info, cl[i].id, "{}")]]

\* ---------------------------------------------------------------- requests
\* hasConnectedClients() and the guard at the top of sendRequest, negated.
hasConnectedClients(cl) == Len(cl) > 0
\* A guard that looks at the active id alone.
ConnectionReadyByActiveId(cl, active) == ~Falsy(active)
ConnectionReady(cl, active) == hasConnectedClients(cl) /\ ~Falsy(active)

\* ++this.requestId
NextRequestId(n) == n + 1

\* A stop() that starts the ids over.
CounterResetOnStop(n) == 0
\* stop() does not touch the counter.
CounterAfterStop(n) == n

\* The methods the hub class defines.
HubMethods == {"configure", "start", "sendInitialBroadcast", "getConnectedClients",
               "clearClients", "setActiveClient", "getActiveClientId",
               "hasConnectedClients", "sendRequest", "isUnityConnected",
               "ensureConnected", "stop"}

\* BaseCommandHandler.ensureUnityConnection: the message of the error it
\* throws, <<>> when it returns normally. Calling a method the hub does not
\* define is a TypeError, which the catch wraps.
ensureUnityConnection(cl) ==
    IF ~hasConnectedClients(cl)
    THEN IF "reconnect" \in HubMethods
         THEN <<"Failed to connect to Unity: ", "Failed to reconnect">>
         ELSE <<"Failed to connect to Unity: ",
                "this.unityConnection.reconnect is not a function">>
    ELSE <<>>

\* What an operation hands back to its caller.
Result(isError, text) == [isError |-> isError, text |-> text]
NoResult == Result(FALSE, <<>>)
\* A method that returns a value to its caller.
Returned(value) == Result(FALSE, <<value>>)
\* The tool callback's shaping of {success: false, error}.
ToolError(message) == Result(TRUE, <<"Error: ">> \o message)

\* No peer stream is under observation.
NoStream == [msgs |-> <<>>, framing |-> "none"]

\* The command prefixes the editor has a handler registered for.
EditorPrefixes == {"console"}
\* The resources the editor has a handler registered for.
EditorResources == {"assemblies"}
\* What HandlerDiscovery registers with the bridge's three registries.
Registered == [command |-> {"console", "menu"},
               resource |-> {"assemblies"},
               prompt |-> {"yourprompt"}]

Out(result, calls, events) ==
    [result |-> result, calls |-> calls, events |-> events]

Commit(h) ==
    /\ clients' = h.clients
    /\ clientDataBuffers' = h.buffers
    /\ clientInfoMap' = h.info
    /\ activeClientId' = h.active
    /\ pendingRequests' = h.pending
    /\ completions' = h.done

hubVars == <<clients, clientDataBuffers, clientInfoMap, activeClientId,
             pendingRequests, completions>>
ioVars == <<sockets, target, writeCbs, timers>>

\* ------------------------------------------------------------------ actions
\* No stream is being read, the editor has its handlers registered and
\* enabled and nothing queued, the registries hold every handler enabled.
IdleFraming == stream = NoStream /\ wire = <<>> /\ delivered = <<>>
\* The editor's server has not been started.
IdleServerThread ==
    /\ running = FALSE
    /\ listener = 0
    /\ listeners = <<>>
    /\ serverThreads = <<>>
    /\ mainThread = "idle"
    /\ acceptedBy = <<>>
IdleEditor ==
    /\ IdleServerThread
    /\ incompleteData = <<>>
    /\ commandHandlers = [p \in EditorPrefixes |-> TRUE]
    /\ mainThreadQueue = <<>>
    /\ replies = <<>>
    /\ executed = <<>>
    /\ resourceHandlers = [r \in EditorResources |-> TRUE]
    /\ connections = <<>>
    /\ client = 0
    /\ repliedTo = <<>>
NotRendered == [done |-> FALSE, text |-> <<>>]
\* What handler.execute hands the tool callback: an object it returns, of
\* which the fields success, error, status and message matter (NULL and <<>>
\* when absent), or an error it throws.
JObject(success, error, status, message) ==
    [kind |-> "returned", success |-> success, error |-> error,
     status |-> status, message |-> message]
Thrown(message) ==
    [kind |-> "thrown", success |-> NULL, error |-> NULL, status |-> NULL,
     message |-> message]
NotReturned ==
    [kind |-> "none", success |-> NULL, error |-> NULL, status |-> NULL,
     message |-> <<>>]
IdleSurface ==
    /\ enabledState = [r \in DOMAIN Registered |->
                          [n \in Registered[r] |-> TRUE]]
    /\ template = <<>>
    /\ params = <<>>
    /\ rendered = NotRendered
    /\ returned = NotReturned

HubInit ==
    /\ server = NULL
    /\ sockets = <<>>
    /\ clients = <<>>
    /\ clientDataBuffers = EmptyFn
    /\ clientInfoMap = EmptyFn
    /\ activeClientId = NULL
    /\ pendingRequests = {}
    /\ requestId = 0
    /\ target = EmptyFn
    /\ writeCbs = {}
    /\ timers = {}
    /\ completions = EmptyFn
    /\ last = Out(NoResult, <<>>, <<>>)

Init == HubInit /\ IdleFraming /\ IdleEditor /\ IdleSurface

\* start(): a hub whose server field is set resolves at once; otherwise the
\* listener is created and the bind succeeds or fails.
start(bindOk) ==
        /\ server' = IF server # NULL THEN server
                     ELSE IF bindOk THEN "listening" ELSE "bindFailed"
        /\ last' = Out(Result(server = NULL /\ ~bindOk, <<>>), <<>>,
                      IF server = NULL /\ bindOk
                      THEN <<Event("serverStarted", NULL)>> ELSE <<>>)
        /\ UNCHANGED <<hubVars, ioVars, requestId, otherVars>>

\* A peer connects: the connection listener runs.
accept(addr) ==
        /\ server = "listening"
        /\ Len(sockets) < MaxConns
        /\ \A i \in DOMAIN AddrSeq :
               addr = AddrSeq[i] =>
                   \A j \in 1..(i - 1) :
                       \E k \in DOMAIN sockets : sockets[k].addr = AddrSeq[j]
        /\ \A i \in DOMAIN sockets :
               sockets[i].addr = addr => sockets[i].state = "closed"
        /\ LET socket == Len(sockets) + 1
               h == acceptHandler(Hub, addr, socket)
           IN  /\ sockets' = Append(sockets, [addr |-> addr, state |-> "open"])
               /\ Commit(h)
               /\ last' = Out(NoResult, h.calls, h.events)
        /\ UNCHANGED <<server, requestId, target, writeCbs, timers, otherVars>>

\* A socket emits 'data'; its handler passes the accept-time clientId.
data(s, chunk) ==
        /\ sockets[s].state = "open"
        /\ LET h == handleClientData(Hub, sockets[s].addr, chunk)
           IN  /\ Commit(h)
               /\ last' = Out(NoResult, h.calls, h.events)
        /\ UNCHANGED <<server, ioVars, requestId, otherVars>>

\* A socket emits 'close' (the peer went away, or the socket was destroyed).
close(s) ==
        /\ sockets[s].state # "closed"
        /\ LET h == closeHandler(Hub, sockets[s].addr)
           IN  /\ Commit(h)
               /\ last' = Out(NoResult, h.calls, h.events)
        /\ sockets' = [sockets EXCEPT ![s].state = "closed"]
        /\ UNCHANGED <<server, requestId, target, writeCbs, timers, otherVars>>

\* The promise executor of sendRequest, entered once the guard has passed:
\* allocate the id, record the entry, write to the active client's socket
\* and arm the timer. A socket that is not in the map makes the write throw,
\* which the catch turns into a reject; the lines after the write are skipped.
SendAccepted ==
    /\ requestId < MaxReq
    /\ LET n == NextRequestId(requestId)
           id == ToStr(n)
           socket == MapGet(clients, activeClientId)
       IN  /\ requestId' = n
           /\ pendingRequests' = pendingRequests \cup {id}
           /\ target' = FnSet(target, id, socket)
           /\ IF socket = 0
              THEN /\ completions' = FnSet(completions, id, 1)
                   /\ last' = Out(NoResult,
                                 <<Call(id, "reject", "TypeError")>>, <<>>)
                   /\ UNCHANGED <<writeCbs, timers>>
              ELSE /\ completions' = FnSet(completions, id, 0)
                   /\ writeCbs' = writeCbs \cup {id}
                   /\ timers' = timers \cup {id}
                   /\ last' = Out(NoResult, <<>>, <<>>)
    /\ UNCHANGED <<server, sockets, clients, clientDataBuffers, clientInfoMap,
                   activeClientId, otherVars>>

\* The guard of sendRequest failed: the call throws and nothing else happens.
SendRefused(result) ==
    /\ last' = Out(result, <<>>, <<>>)
    /\ UNCHANGED <<server, hubVars, ioVars, requestId, otherVars>>

\* sendRequest(request), called on the hub directly.
sendRequest ==
    IF ConnectionReady(clients, activeClientId)
    THEN SendAccepted
    ELSE SendRefused(Result(TRUE, <<"No Unity clients connected">>))

\* An MCP tool call routed through a command handler (console_clear):
\* ensureUnityConnection, then sendUnityRequest; every throw is caught by the
\* handler and returned as {success: false, error}, which the tool callback
\* turns into an isError result.
toolCall ==
    LET thrown == ensureUnityConnection(clients) IN
    IF thrown # <<>>
    THEN SendRefused(ToolError(thrown))
    ELSE IF ConnectionReady(clients, activeClientId)
    THEN SendAccepted
    ELSE SendRefused(ToolError(<<"No Unity clients connected">>))

\* The write callback runs without an error: nothing to do.
writeDone(id) ==
        /\ id \in writeCbs
        /\ sockets[target[id]].state = "open"
        /\ writeCbs' = writeCbs \ {id}
        /\ last' = Out(NoResult, <<>>, <<>>)
        /\ UNCHANGED <<server, hubVars, sockets, target, timers, requestId, otherVars>>

\* The write callback runs with an error, which a write gets when its socket
\* is destroyed before the data is flushed (by stop(), or because the peer
\* went away): delete the entry and reject.
writeError(id) ==
        /\ id \in writeCbs
        /\ sockets[target[id]].state # "open"
        /\ writeCbs' = writeCbs \ {id}
        /\ pendingRequests' = pendingRequests \ {id}
        /\ completions' = [completions EXCEPT ![id] = @ + 1]
        /\ last' = Out(NoResult,
                      <<Call(id, "reject", "write error")>>, <<>>)
        /\ UNCHANGED <<server, clients, clientDataBuffers, clientInfoMap,
                       activeClientId, sockets, target, timers, requestId, otherVars>>

\* The 30 s timer of a request fires.
timeout(id) ==
        /\ id \in timers
        /\ timers' = timers \ {id}
        /\ IF id \in pendingRequests
           THEN /\ pendingRequests' = pendingRequests \ {id}
                /\ completions' = [completions EXCEPT ![id] = @ + 1]
                /\ last' = Out(NoResult,
                              <<Call(id, "reject", "Request timed out")>>, <<>>)
           ELSE /\ UNCHANGED <<pendingRequests, completions>>
                /\ last' = Out(NoResult, <<>>, <<>>)
        /\ UNCHANGED <<server, clients, clientDataBuffers, clientInfoMap,
                       activeClientId, sockets, target, writeCbs, requestId, otherVars>>

\* A setActiveClient that does not look the id up.
setActiveClientUnchecked(clientId) ==
        /\ activeClientId' = clientId
        /\ last' = Out(Returned("true"), <<>>,
                      <<Event("activeClientChanged", clientId)>>)
        /\ UNCHANGED <<server, clients, clientDataBuffers, clientInfoMap,
                       pendingRequests, completions, ioVars, requestId, otherVars>>
\* setActiveClient(clientId): false for an id that is not a key of the client
\* map, otherwise the id becomes the active one and true is returned.
setActiveClient(clientId) ==
        /\ IF ~MapHas(clients, clientId)
           THEN /\ UNCHANGED activeClientId
                /\ last' = Out(Returned("false"), <<>>, <<>>)
           ELSE /\ activeClientId' = clientId
                /\ last' = Out(Returned("true"), <<>>,
                              <<Event("activeClientChanged", clientId)>>)
        /\ UNCHANGED <<server, clients, clientDataBuffers, clientInfoMap,
                       pendingRequests, completions, ioVars, requestId, otherVars>>

\* clearClients()
clearClients ==
    /\ clients' = <<>>
    /\ clientDataBuffers' = EmptyFn
    /\ clientInfoMap' = EmptyFn
    /\ last' = Out(NoResult, <<>>, <<>>)
    /\ UNCHANGED <<server, activeClientId, pendingRequests, completions, ioVars,
                   requestId, otherVars>>

\* The rejects of stop()'s last loop, in the map's (= id) order.
RECURSIVE StopCalls(_)
StopCalls(pending) ==
    IF pending = {} THEN <<>>
    ELSE LET id == CHOOSE i \in pending :
                       \A j \in pending : \E n \in 1..9 : \E m \in n..9 :
                           Digits[n] = i /\ Digits[m] = j
         IN  <<Call(id, "reject", "Connection closed")>> \o StopCalls(pending \ {id})

\* stop(): destroy the sockets in the client map, clear the maps, close the
\* listener, reject what is pending.
stop ==
    /\ sockets' = [i \in DOMAIN sockets |->
                      IF sockets[i].state = "open"
                         /\ \E j \in 1..Len(clients) : clients[j].sock = i
                      THEN [sockets[i] EXCEPT !.state = "destroyed"]
                      ELSE sockets[i]]
    /\ clients' = <<>>
    /\ clientDataBuffers' = EmptyFn
    /\ clientInfoMap' = EmptyFn
    /\ activeClientId' = NULL
    /\ server' = NULL
    /\ completions' = [id \in DOMAIN completions |->
                          IF id \in pendingRequests
                          THEN completions[id] + 1 ELSE completions[id]]
    /\ pendingRequests' = {}
    /\ requestId' = CounterAfterStop(requestId)
    /\ last' = Out(NoResult, StopCalls(pendingRequests),
                  IF server # NULL THEN <<Event("serverStopped", NULL)>> ELSE <<>>)
    /\ UNCHANGED <<target, writeCbs, timers, otherVars>>

Next ==
    \/ \E bindOk \in BOOLEAN : start(bindOk)
    \/ \E addr \in Addrs : accept(addr)
    \/ \E s \in DOMAIN sockets, chunk \in Chunks : data(s, chunk)
    \/ \E s \in DOMAIN sockets : close(s)
    \/ sendRequest
    \/ toolCall
    \/ \E id \in writeCbs : writeDone(id)
    \/ \E id \in writeCbs : writeError(id)
    \/ \E id \in timers : timeout(id)
    \/ \E clientId \in Addrs \cup RegIds : setActiveClient(clientId)
    \/ clearClients
    \/ stop

Spec == Init /\ [][Next]_vars

\* ------------------------------------------------- the bridge-side framer
\* One connection's byte stream fed to handleClientData in reads of any
\* size. The objects a peer may send, and how many a stream holds at most.
MaxStream == 2
FrameMsgs == {Registration("proj-x"), Notification, Success(ToStr(1))}
\* "lines": a newline after every object (what the bridge itself writes);
\* "openEnd": the same with no newline after the last object; "bare": no
\* newline at all (what the editor writes).
Framings == {"lines", "openEnd", "bare"}
StreamsOf(msgs) ==
    UNION {[1..n -> msgs] : n \in 1..MaxStream}

RECURSIVE Serialize(_, _)
Serialize(msgs, framing) ==
    IF msgs = <<>> THEN <<>>
    ELSE <<Frag(Head(msgs), 1), Frag(Head(msgs), 2)>>
          \o (IF framing = "lines" \/ (framing = "openEnd" /\ Len(msgs) > 1)
              THEN <<NL>> ELSE <<>>)
          \o Serialize(Tail(msgs), framing)

\* The hub has started and accepted one connection, whose peer is about to
\* send a stream.
FramerInit ==
    /\ server = "listening"
    /\ sockets = <<[addr |-> AddrSeq[1], state |-> "open"]>>
    /\ clients = <<[id |-> AddrSeq[1], sock |-> 1]>>
    /\ clientDataBuffers = FnSet(EmptyFn, AddrSeq[1], <<>>)
    /\ clientInfoMap = EmptyFn
    /\ activeClientId = AddrSeq[1]
    /\ pendingRequests = {}
    /\ requestId = 0
    /\ target = EmptyFn
    /\ writeCbs = {}
    /\ timers = {}
    /\ completions = EmptyFn
    /\ last = Out(NoResult, <<>>, <<Event("clientConnected", AddrSeq[1])>>)
    /\ \E msgs \in StreamsOf(FrameMsgs) : \E framing \in Framings :
           /\ stream = [msgs |-> msgs, framing |-> framing]
           /\ wire = Serialize(msgs, framing)
    /\ delivered = <<>>
    /\ IdleEditor
    /\ IdleSurface

\* The socket emits 'data' with the next n bytes of the stream.
feed(n) ==
    /\ n \in 1..Len(wire)
    /\ sockets[1].state = "open"
    /\ LET h == handleClientData(Hub, sockets[1].addr, SubSeq(wire, 1, n))
       IN  /\ Commit(h)
           /\ last' = Out(NoResult, h.calls, h.events)
           /\ delivered' = delivered \o h.processed
    /\ wire' = SubSeq(wire, n + 1, Len(wire))
    /\ UNCHANGED <<server, ioVars, requestId, stream, editorVars, surfaceVars>>

FramerNext == \E n \in 1..Len(wire) : feed(n)

FramerSpec == FramerInit /\ [][FramerNext]_vars

\* ------------------------------------------------- the editor-side server
\* A request as the bridge writes it; command is the command text cut at
\* '.', <<>> when it is missing.
Request(command, id) ==
    [kind |-> "json", type |-> "", command |-> command, id |-> id]
Commands == {<<"console", "clear">>, <<"foo", "bar">>, <<"ping">>, <<>>}
\* The same with type "resource".
ResourceRequest(command, id) ==
    [kind |-> "json", type |-> "resource", command |-> command, id |-> id]
ResourceCommands == {<<"assemblies", "list">>, <<"nores", "list">>,
                     <<"assemblies">>, <<>>}
RequestsWithId(id) ==
    {Request(c, id) : c \in Commands}
        \cup {ResourceRequest(c, id) : c \in ResourceCommands}
RequestStreams ==
    UNION {{[i \in 1..n |-> [r[i] EXCEPT !.id = ToStr(i)]] :
                r \in [1..n -> RequestsWithId(NULL)]}
               : n \in 1..MaxStream}

\* JObject.Parse(fullData): white space around the one object is skipped;
\* an incomplete object, an empty text and text after the object all throw
\* JsonReaderException.
Strip(text) == SelectSeq(text, LAMBDA t : t # NL)
JObjectParseFails(text) == ParseFails(Strip(text))

ErrorReply(message, id) ==
    [status |-> "error", message |-> message, result |-> NULL, id |-> id]
SuccessReply(result, id) ==
    [status |-> "success", message |-> NULL, result |-> result, id |-> id]
\* What a handler's Execute returns, and the record of the call.
HandlerOutput(prefix, action) == [output |-> <<prefix, action>>]
ExecuteCall(prefix, action, id) == [prefix |-> prefix, action |-> action, id |-> id]
\* A handler's Execute returns or throws.
Outcomes == {"returns", "throws"}

\* The lambda ExecuteCommand queues for the main thread, run against the
\* handler table as it is when the lambda runs.
RunQueued(handlers, request, outcome) ==
    LET parts == request.command
        id == request.id
    IN  IF Len(parts) < 2
        THEN [result |-> ErrorReply(<<"Invalid command format: ", parts>>, id),
              calls |-> <<>>]
        ELSE IF parts[1] \in DOMAIN handlers /\ handlers[parts[1]]
        THEN [result |-> IF outcome = "returns"
                         THEN HandlerOutput(parts[1], parts[2])
                         ELSE ErrorReply(<<"Error in ", parts>>, id),
              calls |-> <<ExecuteCall(parts[1], parts[2], id)>>]
        ELSE IF parts[1] \in DOMAIN handlers
        THEN [result |-> ErrorReply(<<"Command prefix '", parts[1],
                                      "' is disabled">>, id),
              calls |-> <<>>]
        ELSE [result |-> ErrorReply(<<"Unknown command prefix: ", parts[1]>>, id),
              calls |-> <<>>]

\* FetchResourceData(resourceName, parameters): the object it returns (no
\* id in it) and whether the handler's FetchResource was called.
FetchResourceData(resourceName, outcome) ==
    IF resourceName \notin DOMAIN resourceHandlers
    THEN [result |-> ErrorReply(<<"Resource not found: ", resourceName>>, NULL),
          called |-> FALSE]
    ELSE IF ~resourceHandlers[resourceName]
    THEN [result |-> ErrorReply(<<"Resource '", resourceName,
                                  "' is disabled">>, NULL),
          called |-> FALSE]
    ELSE [result |-> IF outcome = "returns"
                     THEN SuccessReply(HandlerOutput(resourceName, "FetchResource"),
                                       NULL)
                     ELSE ErrorReply(<<"Error fetching resource: ", "message">>,
                                     NULL),
          called |-> TRUE]

\* The lambda ProcessResourceRequest queues for the main thread.
RunQueuedFetch(request, outcome) ==
    LET fetch == FetchResourceData(request.command[1], outcome)
    IN  [result |-> fetch.result,
         calls |-> IF fetch.called
                   THEN <<ExecuteCall(request.command[1], "FetchResource",
                                      request.id)>>
                   ELSE <<>>]

\* ProcessMainThreadQueue: run everything queued; the Execute calls made.
RECURSIVE RunQueue(_, _)
RunQueue(queue, handlers) ==
    IF queue = <<>> THEN <<>>
    ELSE (IF Head(queue).request.type = "resource"
          THEN RunQueuedFetch(Head(queue).request, Head(queue).outcome).calls
          ELSE RunQueued(handlers, Head(queue).request, Head(queue).outcome).calls)
           \o RunQueue(Tail(queue), handlers)

\* ExecuteCommand(command): the reply, and what becomes of the queue and of
\* the handlers, when the main thread runs the queue within the 5 s wait
\* (inTime) or not.
ExecuteCommand(request, inTime, outcome) ==
    IF request.command = <<>>
    THEN [reply |-> ErrorReply(<<"Missing command type">>, request.id),
          queue |-> mainThreadQueue, calls |-> <<>>]
    ELSE LET queued == Append(mainThreadQueue,
                              [request |-> request, outcome |-> outcome])
         IN  IF inTime
             THEN [reply |-> SuccessReply(
                                 RunQueued(commandHandlers, request, outcome).result,
                                 request.id),
                   queue |-> <<>>,
                   calls |-> RunQueue(queued, commandHandlers)]
             ELSE [reply |-> ErrorReply(
                       <<"Timed out waiting for command execution on main thread">>,
                       request.id),
                   queue |-> queued, calls |-> <<>>]

\* ProcessResourceRequest(request): the same for a request of type
\* "resource". The first two replies carry no id; the object the main thread
\* produced is given the request's id and returned as it is.
ProcessResourceRequest(request, inTime, outcome) ==
    LET parts == request.command
        id == request.id
    IN  IF parts = <<>>
        THEN [reply |-> ErrorReply(<<"Missing command in resource request">>, NULL),
              queue |-> mainThreadQueue, calls |-> <<>>]
        ELSE IF Len(parts) < 2
        THEN [reply |-> ErrorReply(<<"Invalid command format: ", parts>>, NULL),
              queue |-> mainThreadQueue, calls |-> <<>>]
        ELSE IF parts[1] = ""
        THEN [reply |-> ErrorReply(<<"Missing resource name">>, id),
              queue |-> mainThreadQueue, calls |-> <<>>]
        ELSE LET queued == Append(mainThreadQueue,
                                  [request |-> request, outcome |-> outcome])
             IN  IF inTime
                 THEN [reply |-> [RunQueuedFetch(request, outcome).result
                                      EXCEPT !.id = id],
                       queue |-> <<>>,
                       calls |-> RunQueue(queued, commandHandlers)]
                 ELSE [reply |-> ErrorReply(
                           <<"Timed out waiting for resource fetch on main thread">>,
                           id),
                       queue |-> queued, calls |-> <<>>]

\* The most control connections the bridge opens to the editor.
MaxEditorConns == 2

\* The editor has started with its handlers registered (enabled or disabled
\* by the saved settings), the server thread listens, and the bridge is
\* about to connect and write requests.
EditorInit ==
    /\ HubInit
    /\ IdleSurface
    /\ \E msgs \in RequestStreams :
           /\ stream = [msgs |-> msgs, framing |-> "lines"]
           /\ wire = Serialize(msgs, "lines")
    /\ delivered = <<>>
    /\ IdleServerThread
    /\ incompleteData = <<>>
    /\ commandHandlers \in [EditorPrefixes -> BOOLEAN]
    /\ mainThreadQueue = <<>>
    /\ replies = <<>>
    /\ executed = <<>>
    /\ resourceHandlers \in [EditorResources -> BOOLEAN]
    /\ connections = <<>>
    /\ client = 0
    /\ repliedTo = <<>>

editorFrame == <<server, sockets, clients, clientDataBuffers, clientInfoMap,
                 activeClientId, pendingRequests, requestId, target, writeCbs,
                 timers, completions, last, stream, surfaceVars, threadVars>>

\* this.client is { Connected: true }
ClientConnected == client # 0 /\ connections[client] = "open"

\* What the bridge still has to write once a connection is gone: the rest
\* of a request it had partly written went with that connection.
RECURSIVE AfterReconnect(_)
AfterReconnect(w) ==
    IF w = <<>> THEN <<>>
    ELSE IF Head(w).kind = "frag" /\ Head(w).part = 1 THEN w
    ELSE AfterReconnect(Tail(w))

\* Variant: the new connection is taken without closing the previous client.
AcceptTcpClientKeepingPrevious ==
    /\ Len(connections) < MaxEditorConns
    /\ connections' = Append(connections, "open")
    /\ client' = Len(connections) + 1
    /\ wire' = IF Len(connections) = 0 THEN wire ELSE AfterReconnect(wire)
    /\ UNCHANGED <<editorFrame, delivered, incompleteData, commandHandlers,
                   mainThreadQueue, replies, executed, resourceHandlers,
                   repliedTo>>

\* RunServer, listener.Pending(): the previous client is closed and the new
\* connection becomes this.client. incompleteData is left as it is.
AcceptTcpClient ==
    /\ Len(connections) < MaxEditorConns
    /\ connections' = Append(IF client # 0
                             THEN [connections EXCEPT ![client] = "closed"]
                             ELSE connections,
                             "open")
    /\ client' = Len(connections) + 1
    /\ wire' = IF Len(connections) = 0 THEN wire ELSE AfterReconnect(wire)
    /\ UNCHANGED <<editorFrame, delivered, incompleteData, commandHandlers,
                   mainThreadQueue, replies, executed, resourceHandlers,
                   repliedTo>>

\* The bridge closes its end of the current connection.
peerClose ==
    /\ ClientConnected
    /\ connections' = [connections EXCEPT ![client] = "peerClosed"]
    /\ UNCHANGED <<editorFrame, wire, delivered, incompleteData,
                   commandHandlers, mainThreadQueue, replies, executed,
                   resourceHandlers, client, repliedTo>>

\* RunServer, this.client is { Connected: false }: the field is cleared.
ClientDisconnected ==
    /\ client # 0
    /\ connections[client] # "open"
    /\ client' = 0
    /\ UNCHANGED <<editorFrame, wire, delivered, incompleteData,
                   commandHandlers, mainThreadQueue, replies, executed,
                   resourceHandlers, connections, repliedTo>>

\* The server thread reads the next n bytes from the client and hands them
\* to ProcessData, which writes the reply to this.client.
ProcessData(n, inTime, outcome) ==
    /\ ClientConnected
    /\ n \in 1..Len(wire)
    /\ wire' = SubSeq(wire, n + 1, Len(wire))
    /\ LET fullData == incompleteData \o SubSeq(wire, 1, n) IN
       IF JObjectParseFails(fullData)
       THEN /\ incompleteData' = fullData
            /\ UNCHANGED <<delivered, mainThreadQueue, replies, executed,
                           repliedTo>>
       ELSE LET command == Parsed(Strip(fullData))
                run == IF command.type = "resource"
                       THEN ProcessResourceRequest(command, inTime, outcome)
                       ELSE ExecuteCommand(command, inTime, outcome)
            IN  /\ incompleteData' = <<>>
                /\ delivered' = Append(delivered, command)
                /\ mainThreadQueue' = run.queue
                /\ executed' = executed \o run.calls
                /\ replies' = Append(replies, run.reply)
                /\ repliedTo' = Append(repliedTo, client)
    /\ UNCHANGED <<editorFrame, commandHandlers, resourceHandlers,
                   connections, client>>

\* Variant: the main thread also writes to the client what the commands left
\* in the queue produce.
ProcessMainThreadQueueSendingLate ==
    /\ mainThreadQueue # <<>>
    /\ executed' = executed \o RunQueue(mainThreadQueue, commandHandlers)
    /\ mainThreadQueue' = <<>>
    /\ replies' = replies \o
           [i \in 1..Len(mainThreadQueue) |->
               SuccessReply(RunQueued(commandHandlers, mainThreadQueue[i].request,
                                      mainThreadQueue[i].outcome).result,
                            mainThreadQueue[i].request.id)]
    /\ repliedTo' = repliedTo \o [i \in 1..Len(mainThreadQueue) |-> client]
    /\ UNCHANGED <<editorFrame, wire, delivered, incompleteData,
                   commandHandlers, resourceHandlers, connections, client>>

\* EditorApplication.update runs ProcessMainThreadQueue with commands left
\* in the queue.
ProcessMainThreadQueue ==
    /\ mainThreadQueue # <<>>
    /\ executed' = executed \o RunQueue(mainThreadQueue, commandHandlers)
    /\ mainThreadQueue' = <<>>
    /\ UNCHANGED <<editorFrame, wire, delivered, incompleteData,
                   commandHandlers, replies, resourceHandlers, connections,
                   client, repliedTo>>

\* SetHandlerEnabled(commandPrefix, enabled)
SetHandlerEnabled(commandPrefix, enabled) ==
    /\ commandHandlers' = IF commandPrefix \in DOMAIN commandHandlers
                          THEN [commandHandlers EXCEPT ![commandPrefix] = enabled]
                          ELSE commandHandlers
    /\ UNCHANGED <<editorFrame, wire, delivered, incompleteData,
                   mainThreadQueue, replies, executed, resourceHandlers,
                   connections, client, repliedTo>>

\* SetResourceHandlerEnabled(resourceName, enabled)
SetResourceHandlerEnabled(resourceName, enabled) ==
    /\ resourceHandlers' = IF resourceName \in DOMAIN resourceHandlers
                           THEN [resourceHandlers EXCEPT ![resourceName] = enabled]
                           ELSE resourceHandlers
    /\ UNCHANGED <<editorFrame, wire, delivered, incompleteData,
                   commandHandlers, mainThreadQueue, replies, executed,
                   connections, client, repliedTo>>

EditorNext ==
    \/ AcceptTcpClient
    \/ peerClose
    \/ ClientDisconnected
    \/ \E n \in 1..Len(wire) : \E inTime \in BOOLEAN : \E outcome \in Outcomes :
           ProcessData(n, inTime, outcome)
    \/ ProcessMainThreadQueue
    \/ \E commandPrefix \in EditorPrefixes \cup {"foo"} : \E enabled \in BOOLEAN :
           SetHandlerEnabled(commandPrefix, enabled)
    \/ \E resourceName \in EditorResources \cup {"nores"} : \E enabled \in BOOLEAN :
           SetResourceHandlerEnabled(resourceName, enabled)

EditorSpec == EditorInit /\ [][EditorNext]_vars

\* ------------------------------------- the bridge's registries and adapter
\* HandlerDiscovery has registered every handler with its registry (enabled)
\* and with the HandlerAdapter, which registered the MCP callbacks.
SurfaceInit == HubInit /\ IdleFraming /\ IdleEditor /\ IdleSurface

surfaceFrame == <<server, sockets, clients, clientDataBuffers, clientInfoMap,
                  activeClientId, pendingRequests, requestId, target, writeCbs,
                  timers, completions, framingVars, editorVars>>

\* CommandRegistry / ResourceRegistry / PromptRegistry .setHandlerEnabled
setHandlerEnabled(registry, name, enabled) ==
    /\ IF name \in DOMAIN enabledState[registry]
       THEN /\ enabledState' = [enabledState EXCEPT ![registry][name] = enabled]
            /\ last' = Out(Returned("true"), <<>>, <<>>)
       ELSE /\ UNCHANGED enabledState
            /\ last' = Out(Returned("false"), <<>>, <<>>)
    /\ UNCHANGED <<surfaceFrame, template, params, rendered, returned>>

\* The tool callback HandlerAdapter.registerHandlerTools gave the MCP server
\* for a tool of the handler with this prefix: it awaits handler.execute
\* and shapes what that returns or throws.
callTool(prefix, outcome) ==
    /\ last' = Out(IF outcome = "returns"
                   THEN Result(FALSE, <<"JSON.stringify(result)">>)
                   ELSE ToolError(<<"message">>),
                   <<Call(prefix, "execute", outcome)>>, <<>>)
    /\ UNCHANGED <<surfaceFrame, surfaceVars>>

\* The resource callback HandlerAdapter.registerResourceHandler gave the MCP
\* server: it awaits handler.fetchResource and rethrows what that throws.
readResource(name, outcome) ==
    /\ last' = Out(IF outcome = "returns"
                   THEN Result(FALSE, <<"contents">>)
                   ELSE Result(TRUE, <<"Error fetching resource ", name, ": ",
                                       "message">>),
                   <<Call(name, "fetchResource", outcome)>>, <<>>)
    /\ UNCHANGED <<surfaceFrame, surfaceVars>>

\* The prompts the MCP server exposes: those registerPromptHandler gave it.
RECURSIVE SeqOf(_)
SeqOf(S) ==
    IF S = {} THEN <<>>
    ELSE LET x == CHOOSE y \in S : TRUE IN <<x>> \o SeqOf(S \ {x})
ExposedPrompts == SeqOf(Registered.prompt)
listPrompts ==
    /\ last' = Out(Result(FALSE, ExposedPrompts), <<>>, <<>>)
    /\ UNCHANGED <<surfaceFrame, surfaceVars>>

SurfaceNext ==
    \/ \E registry \in DOMAIN Registered :
           \E name \in Registered[registry] \cup {"unknown"} :
               \E enabled \in BOOLEAN : setHandlerEnabled(registry, name, enabled)
    \/ \E prefix \in Registered.command : \E outcome \in Outcomes :
           callTool(prefix, outcome)
    \/ \E name \in Registered.resource : \E outcome \in Outcomes :
           readResource(name, outcome)
    \/ listPrompts

SurfaceSpec == SurfaceInit /\ [][SurfaceNext]_vars

\* ------------------------------------------- the adapter's prompt callback
\* A text is a sequence of pieces: a character, or a token {name}.
Lit(c) == [ph |-> FALSE, name |-> c]
Ph(key) == [ph |-> TRUE, name |-> key]
\* The longest template, in pieces.
MaxTemplate == 2
ParamKeys == {"p", "q"}
Templates ==
    UNION {[1..n -> {Lit("a"), Ph("z")} \cup {Ph(k) : k \in ParamKeys}]
               : n \in 1..MaxTemplate}
\* String(value) of the values a request may carry.
ParamValues == {<<Lit("v")>>} \cup {<<Ph(k)>> : k \in ParamKeys}
\* Object.entries(params): the entries in insertion order, keys distinct.
ParamMaps ==
    {m \in UNION {[1..n -> [key : ParamKeys, value : ParamValues]]
                      : n \in 0..Cardinality(ParamKeys)} :
         \A i, j \in DOMAIN m : i # j => m[i].key # m[j].key}

\* result.replace(new RegExp(`{${key}}`, 'g'), String(value))
RECURSIVE ReplaceAll(_, _, _)
ReplaceAll(text, key, value) ==
    IF text = <<>> THEN <<>>
    ELSE (IF Head(text) = Ph(key) THEN value ELSE <<Head(text)>>)
           \o ReplaceAll(Tail(text), key, value)

\* applyTemplateParams(template, params): one global replace per entry, each
\* on the result of the one before.
RECURSIVE applyTemplateParams(_, _)
applyTemplateParams(text, entries) ==
    IF entries = <<>> THEN text
    ELSE applyTemplateParams(ReplaceAll(text, Head(entries).key,
                                        Head(entries).value),
                             Tail(entries))

\* A prompt with parameters is registered and a request for it arrives.
PromptInit ==
    /\ HubInit
    /\ IdleFraming
    /\ IdleEditor
    /\ enabledState = [r \in DOMAIN Registered |->
                          [n \in Registered[r] |-> TRUE]]
    /\ template \in Templates
    /\ params \in ParamMaps
    /\ rendered = NotRendered
    /\ returned = NotReturned

\* The prompt callback registerPromptHandler gave the MCP server.
getPrompt ==
    /\ ~rendered.done
    /\ rendered' = [done |-> TRUE, text |-> applyTemplateParams(template, params)]
    /\ UNCHANGED <<surfaceFrame, last, enabledState, template, params, returned>>

PromptNext == getPrompt

PromptSpec == PromptInit /\ [][PromptNext]_vars

\* --------------------------------------------- the adapter's tool callback
\* The replies the editor may write for a request of the bridge.
EditorReplies ==
    {ExecuteCommand(Request(c, ToStr(1)), inTime, outcome).reply :
         c \in Commands, inTime \in BOOLEAN, outcome \in Outcomes}

\* JsonConvert.SerializeObject(response) as the hub's parser sees it.
Wire(reply) ==
    Tok("json", NULL, reply.status,
        IF reply.status = "success" THEN "result" ELSE NULL,
        reply.id, NULL, NULL)

\* What the promise of sendRequest resolves with when the hub reads the
\* reply to a pending request: the reply's result or the whole reply.
Resolution(reply) ==
    LET h == processClientMessage(
                 [Hub EXCEPT !.pending = {reply.id},
                             !.done = FnSet(EmptyFn, reply.id, 0)],
                 AddrSeq[1], <<Wire(reply)>>)
    IN  IF h.calls[1].with = "result" THEN reply.result ELSE reply

\* The object JSON.parse made of it, as the bridge's handlers see it.
AsObject(value) ==
    IF "status" \in DOMAIN value
    THEN JObject(NULL, NULL, value.status,
                 IF value.status = "error" THEN value.message ELSE <<>>)
    ELSE JObject(NULL, NULL, NULL, <<>>)

\* How sendUnityRequest ends for a handler: resolved with a value or
\* rejected with an error.
Resolved(value) == [kind |-> "resolved", value |-> value, message |-> ""]
Rejected(message) == [kind |-> "rejected", value |-> NotReturned, message |-> message]
SendOutcomes ==
    {Resolved(AsObject(Resolution(reply))) : reply \in EditorReplies}
        \cup {Rejected("Request timed out")}

\* MenuItemCommandHandler.executeMenuItem
executeMenuItem(menuItem, sent) ==
    IF ~menuItem
    THEN JObject("false", "MenuItem parameter is required", NULL, <<>>)
    ELSE IF sent.kind = "rejected"
    THEN JObject("false", sent.message, NULL, <<>>)
    ELSE sent.value

\* What a handler's execute may hand the tool callback.
ReturnedObjects ==
    {JObject(success, error, status, message) :
         success \in {NULL, "true", "false"}, error \in {NULL, "", "message"},
         status \in {NULL, "success", "error"},
         message \in {<<>>, <<"message">>}}
        \cup {executeMenuItem(menuItem, sent) :
                  menuItem \in BOOLEAN, sent \in SendOutcomes}
        \cup {Thrown(<<"message">>)}

\* JSON.stringify(result)
Stringify(object) == <<object>>

\* The tool callback's shaping of what handler.execute returned or threw.
ToolResult(object) ==
    IF object.kind = "thrown" THEN ToolError(object.message)
    ELSE IF object.success = "false" /\ ~Falsy(object.error)
    THEN ToolError(<<object.error>>)
    ELSE Result(FALSE, Stringify(object))

\* A tool is registered and a call of it has run handler.execute.
ToolInit ==
    /\ HubInit
    /\ IdleFraming
    /\ IdleEditor
    /\ enabledState = [r \in DOMAIN Registered |->
                          [n \in Registered[r] |-> TRUE]]
    /\ template = <<>>
    /\ params = <<>>
    /\ rendered = NotRendered
    /\ returned \in ReturnedObjects

\* The tool callback registerHandlerTools gave the MCP server, from the
\* point where handler.execute has settled.
toolCallback ==
    /\ last.calls = <<>>
    /\ last' = Out(ToolResult(returned),
                   <<Call("menu", "execute", returned.kind)>>, <<>>)
    /\ UNCHANGED <<surfaceFrame, surfaceVars>>

ToolNext == toolCallback

ToolSpec == ToolInit /\ [][ToolNext]_vars

\* ------------------------------------------------ unity_connectToProject
\* Names are texts, character by character.
Unknown == <<"U", "n", "k", "n", "o", "w", "n">>
UnknownProject == Unknown \o <<"P", "r", "o", "j", "e", "c", "t">>
\* info.productName of the clients that have registered; <<>> is the empty
\* name.
ProductNames == {<<>>, Unknown, UnknownProject, <<"D", "e", "m", "o">>,
                 <<"d", "e", "m", "o", "2">>}
\* The projectName parameter.
ProjectNames == {<<"d", "e", "m", "o">>, <<"D", "E">>, <<"2">>,
                 <<"u", "n", "k">>, <<>>}

\* String.prototype.toLowerCase on the letters that occur.
LowerCase == [D |-> "d", E |-> "e", P |-> "p", U |-> "u"]
toLowerCase(text) ==
    [i \in 1..Len(text) |-> IF text[i] \in DOMAIN LowerCase
                            THEN LowerCase[text[i]] ELSE text[i]]
\* String.prototype.includes
includes(text, part) ==
    \E i \in 0..(Len(text) - Len(part)) :
        SubSeq(text, i + 1, i + Len(part)) = part

\* The hub has started and editors have connected; some have registered
\* and so have an info record.
ProjectInit ==
    /\ server = "listening"
    /\ \E n \in 0..MaxConns :
           /\ n <= Len(AddrSeq)
           /\ sockets = [i \in 1..n |-> [addr |-> AddrSeq[i], state |-> "open"]]
           /\ clients = [i \in 1..n |-> [id |-> AddrSeq[i], sock |-> i]]
           /\ clientDataBuffers = [x \in {AddrSeq[i] : i \in 1..n} |-> <<>>]
           /\ \E registered \in SUBSET {AddrSeq[i] : i \in 1..n} :
                  clientInfoMap \in [registered -> [productName : ProductNames]]
           /\ activeClientId \in {NULL} \cup {AddrSeq[i] : i \in 1..n}
    /\ pendingRequests = {}
    /\ requestId = 0
    /\ target = EmptyFn
    /\ writeCbs = {}
    /\ timers = {}
    /\ completions = EmptyFn
    /\ last = Out(NoResult, <<>>, <<>>)
    /\ IdleFraming
    /\ IdleEditor
    /\ IdleSurface

\* (c.info?.productName || "") of an entry of getConnectedClients().
productNameOf(c) ==
    IF c.id \in DOMAIN clientInfoMap THEN clientInfoMap[c.id].productName
    ELSE <<>>

\* Variant: of the matching clients the last one is selected.
connectToProjectLastMatch(projectName) ==
    /\ LET cl == getConnectedClients(clients, activeClientId, clientInfoMap)
           validClients ==
               SelectSeq(cl, LAMBDA c : /\ productNameOf(c) # <<>>
                                        /\ productNameOf(c) # Unknown
                                        /\ productNameOf(c) # UnknownProject)
           matchingClients ==
               SelectSeq(validClients,
                         LAMBDA c : includes(toLowerCase(productNameOf(c)),
                                             toLowerCase(projectName)))
       IN  IF matchingClients = <<>>
           THEN /\ last' = Out(Result(TRUE, <<"Error: No projects found matching ",
                                              projectName>>), <<>>, <<>>)
                /\ UNCHANGED activeClientId
           ELSE LET match == matchingClients[Len(matchingClients)] IN
                IF ~MapHas(clients, match.id)
                THEN /\ last' = Out(Result(TRUE, <<"Error: Failed to connect to project ",
                                                   projectName>>), <<>>, <<>>)
                     /\ UNCHANGED activeClientId
                ELSE /\ activeClientId' = match.id
                     /\ last' = Out(Result(FALSE, <<"Successfully connected to ",
                                                    productNameOf(match)>>),
                                   <<>>,
                                   <<Event("activeClientChanged", match.id)>>)
    /\ UNCHANGED <<server, clients, clientDataBuffers, clientInfoMap,
                   pendingRequests, completions, ioVars, requestId, otherVars>>
\* The unity_connectToProject tool: the clients with a valid product name
\* are searched for the project name, and the first match is handed to
\* setActiveClient.
connectToProject(projectName) ==
    /\ LET cl == getConnectedClients(clients, activeClientId, clientInfoMap)
           validClients ==
               SelectSeq(cl, LAMBDA c : /\ productNameOf(c) # <<>>
                                        /\ productNameOf(c) # Unknown
                                        /\ productNameOf(c) # UnknownProject)
           matchingClients ==
               SelectSeq(validClients,
                         LAMBDA c : includes(toLowerCase(productNameOf(c)),
                                             toLowerCase(projectName)))
       IN  IF matchingClients = <<>>
           THEN /\ last' = Out(Result(TRUE, <<"Error: No projects found matching ",
                                              projectName>>), <<>>, <<>>)
                /\ UNCHANGED activeClientId
           ELSE LET match == matchingClients[1] IN
                IF ~MapHas(clients, match.id)
                THEN /\ last' = Out(Result(TRUE, <<"Error: Failed to connect to project ",
                                                   projectName>>), <<>>, <<>>)
                     /\ UNCHANGED activeClientId
                ELSE /\ activeClientId' = match.id
                     /\ last' = Out(Result(FALSE, <<"Successfully connected to ",
                                                    productNameOf(match)>>),
                                   <<>>,
                                   <<Event("activeClientChanged", match.id)>>)
    /\ UNCHANGED <<server, clients, clientDataBuffers, clientInfoMap,
                   pendingRequests, completions, ioVars, requestId, otherVars>>

\* sendInitialBroadcast(type): the one datagram it sends.
sendInitialBroadcast(type) == Event("broadcast", type)

\* The unity_listClients tool: the clients with a valid product name, as
\* the hub lists them at the time of the call.
listClients ==
    /\ LET cl == getConnectedClients(clients, activeClientId, clientInfoMap)
           validClients ==
               SelectSeq(cl, LAMBDA c : /\ productNameOf(c) # <<>>
                                        /\ productNameOf(c) # Unknown
                                        /\ productNameOf(c) # UnknownProject)
       IN  last' = Out(Result(FALSE,
                              IF Len(validClients) = 0
                              THEN <<"No valid Unity clients are currently connected.">>
                              ELSE <<"Connected Unity clients:">>
                                     \o [i \in 1..Len(validClients) |->
                                            validClients[i].id]),
                       <<>>, <<>>)
    /\ UNCHANGED <<server, hubVars, ioVars, requestId, otherVars>>

ProjectNext ==
    \/ \E projectName \in ProjectNames : connectToProject(projectName)
    \/ listClients

ProjectSpec == ProjectInit /\ [][ProjectNext]_vars

\* ------------------------------------------------------------------- claims
Range(seq) == {seq[i] : i \in 1..Len(seq)}

\* The socket a request was written to is still connected or not.
SentTo(id, s) == id \in DOMAIN target /\ target[id] = s

\* C1: every accepted request has its completion handle (resolve or reject)
\* invoked exactly once: never twice, and once it has left the pending map
\* it has been invoked.
C1_CompletedExactlyOnce ==
    \A id \in DOMAIN completions :
        /\ completions[id] <= 1
        /\ id \notin pendingRequests => completions[id] = 1

\* C2: handling a client's socket close rejects each pending request that
\* was sent to that client with 'Connection closed'.
C2_DisconnectRejectsPending ==
    [][\A s \in DOMAIN sockets :
          close(s) =>
              \A id \in pendingRequests :
                  SentTo(id, s) =>
                      /\ id \notin pendingRequests'
                      /\ Call(id, "reject", "Connection closed")
                             \in Range(last'.calls)]_vars

\* C3: closing client A's socket leaves every pending request sent to another
\* client B pending, neither resolved nor rejected, and a later response from
\* B that carries its id resolves it.
C3_DisconnectIsolation ==
    [][/\ \A a \in DOMAIN sockets :
             close(a) =>
                 \A id \in pendingRequests :
                     (\E b \in DOMAIN sockets : b # a /\ SentTo(id, b)) =>
                         /\ id \in pendingRequests'
                         /\ completions'[id] = completions[id]
                         /\ \A c \in Range(last'.calls) : c.id # id
       /\ \A b \in DOMAIN sockets : \A id \in pendingRequests :
             \A chunk \in {<<Success(id)>>, <<ErrorEnvelope(id)>>} :
                 (/\ data(b, chunk)
                  /\ SentTo(id, b)
                  /\ \E a \in DOMAIN sockets :
                         a # b /\ sockets[a].state = "closed") =>
                     /\ id \notin pendingRequests'
                     /\ completions'[id] = completions[id] + 1
                     /\ \E c \in Range(last'.calls) :
                            c.id = id /\ c.kind = "resolve"]_vars

\* C3 witness: a socket has just closed while a request written to another,
\* still open socket is pending.
C3_Witness ==
    \E a, b \in DOMAIN sockets : \E id \in pendingRequests :
        /\ a # b
        /\ sockets[a].state = "closed"
        /\ Event("clientDisconnected", sockets[a].addr) \in Range(last.events)
        /\ sockets[b].state = "open"
        /\ SentTo(id, b)
        /\ completions[id] = 0

\* C4: the number of connected clients whose id is the active id is at most
\* one, and exactly one whenever the client map is not empty.
ActiveCount == Cardinality({i \in 1..Len(clients) : clients[i].id = activeClientId})
C4_ActiveClientUnique ==
    /\ ActiveCount <= 1
    /\ Len(clients) > 0 => ActiveCount = 1

\* C5: when a registered client disconnects, its record leaves the client map
\* (under its current id), and if it was active another remaining client is
\* promoted, or the active id becomes null when none remain.
C5_RegisteredDisconnectRemoved ==
    [][\A s \in DOMAIN sockets : \A i \in 1..Len(clients) :
          (/\ close(s)
           /\ clients[i].sock = s
           /\ clients[i].id # sockets[s].addr) =>
              /\ \A j \in 1..Len(clients') : clients'[j].sock # s
              /\ activeClientId = clients[i].id =>
                     IF Len(clients') > 0
                     THEN MapHas(clients', activeClientId')
                     ELSE activeClientId' = NULL]_vars

\* C6: a client id has a receive buffer iff it is a key of the client map,
\* and it has client info only if it is a key of the client map.
C6_MapsAgree ==
    /\ DOMAIN clientDataBuffers = KeySet(clients)
    /\ DOMAIN clientInfoMap \subseteq KeySet(clients)

\* C7: request ids come from a strictly increasing counter: the counter never
\* goes back, and an id handed out was never handed out before.
C7_IdsStrictlyIncrease ==
    [][requestId' # requestId =>
          /\ requestId' > requestId
          /\ ToStr(requestId') \notin DOMAIN completions
          /\ DOMAIN completions' = DOMAIN completions \cup {ToStr(requestId')}]_vars

\* C7 witness: a second id has been handed out after the first request was
\* rejected by stop(), over a new connection.
C7_Witness ==
    /\ requestId = 2
    /\ ToStr(2) \in pendingRequests
    /\ completions[ToStr(1)] >= 1
    /\ target[ToStr(1)] # target[ToStr(2)]
    /\ sockets[target[ToStr(1)]].state = "destroyed"
    /\ ToStr(1) \in writeCbs

\* C8: sendRequest with an empty client map or a null active id fails at once
\* with 'No Unity clients connected' and does nothing else: no id, no pending
\* entry, no timer, no write.
C8_SendWithoutClientRefused ==
    [][(sendRequest /\ (Len(clients) = 0 \/ activeClientId = NULL)) =>
          /\ last'.result = Result(TRUE, <<"No Unity clients connected">>)
          /\ last'.calls = <<>>
          /\ UNCHANGED <<requestId, pendingRequests, completions, timers,
                         writeCbs, target, sockets, clients, clientDataBuffers,
                         clientInfoMap, activeClientId>>]_vars

\* C8 witness: a sendRequest has just been refused while the client map is
\* empty although an active id is still set.
C8_Witness ==
    /\ last.result = Result(TRUE, <<"No Unity clients connected">>)
    /\ Len(clients) = 0
    /\ activeClientId # NULL

\* C9: a tool call through a command handler while no client is connected
\* returns an error result whose message names the no-clients condition, and
\* causes no socket I/O.
NamesNoClients(text) == "No Unity clients connected" \in Range(text)
C9_ToolCallNamesNoClients ==
    [][(toolCall /\ Len(clients) = 0) =>
          /\ last'.result.isError
          /\ NamesNoClients(last'.result.text)
          /\ UNCHANGED <<sockets, writeCbs, target>>]_vars

\* C10: when the 30 s timer of a still pending request fires, the entry is
\* removed and the request rejected with the timeout error; a response with
\* that id arriving afterwards resolves nothing, changes no hub state and
\* raises no error.
C10_TimeoutThenLateReplyDropped ==
    [][/\ \A id \in pendingRequests :
             timeout(id) =>
                 /\ id \notin pendingRequests'
                 /\ last'.calls = <<Call(id, "reject", "Request timed out")>>
       /\ \A s \in DOMAIN sockets : \A id \in DOMAIN completions :
             \A chunk \in {<<Success(id)>>, <<ErrorEnvelope(id)>>} :
                 (/\ data(s, chunk)
                  /\ id \notin pendingRequests
                  /\ id \notin timers
                  /\ target[id] # 0) =>
                     /\ last'.calls = <<>>
                     /\ UNCHANGED <<clients, clientDataBuffers, clientInfoMap,
                                    activeClientId, pendingRequests, completions,
                                    requestId>>]_vars

\* C11: stop() destroys every client socket, rejects every pending request
\* with 'Connection closed' and closes the listener; afterwards the client,
\* buffer, info and pending maps are empty and the active id is null, and no
\* connection is accepted until start() has run again.
C11_StopReleasesEverything ==
    [][/\ stop =>
             /\ \A s \in DOMAIN sockets :
                    sockets[s].state = "open" => sockets'[s].state = "destroyed"
             /\ \A id \in pendingRequests :
                    Call(id, "reject", "Connection closed") \in Range(last'.calls)
             /\ pendingRequests' = {}
             /\ clients' = <<>>
             /\ clientDataBuffers' = EmptyFn
             /\ clientInfoMap' = EmptyFn
             /\ activeClientId' = NULL
             /\ server' = NULL
       /\ \A addr \in Addrs : accept(addr) => server # NULL
       /\ (server = NULL /\ server' # NULL) => \E bindOk \in BOOLEAN : start(bindOk)
      ]_vars

\* C12: a registration carrying clientId X from a connected client whose id
\* is the address-derived T (X not a key of the client map) leaves the client
\* and buffer maps with X and without T, stores the client info under X,
\* makes the client active iff T was active, emits clientRegistered, and
\* getConnectedClients() lists the client exactly once, under X.
C12_RegistrationMovesRecord ==
    [][\A s \in DOMAIN sockets : \A x \in RegIds :
          (/\ data(s, <<Registration(x)>>)
           /\ MapGet(clients, sockets[s].addr) = s
           /\ ~MapHas(clients, x)) =>
              LET T == sockets[s].addr
                  listing == getConnectedClients(clients', activeClientId',
                                                 clientInfoMap')
              IN  /\ MapGet(clients', x) = s
                  /\ ~MapHas(clients', T)
                  /\ x \in DOMAIN clientDataBuffers'
                  /\ T \notin DOMAIN clientDataBuffers'
                  /\ x \in DOMAIN clientInfoMap'
                  /\ clientInfoMap'[x] = Registration(x).clientInfo
                  /\ (activeClientId' = x) <=> (activeClientId = T)
                  /\ Event("clientRegistered", x) \in Range(last'.events)
                  /\ Cardinality({i \in DOMAIN listing : listing[i].id = x}) = 1
                  /\ \A i \in DOMAIN listing : listing[i].id # T]_vars

\* C13: setActiveClient(id) returns false and changes nothing, and emits no
\* event, when id is not a key of the client map; otherwise it returns true,
\* the active id becomes id and the client, buffer, info and pending maps
\* are unchanged.
C13_SetActiveClientChecksId ==
    [][\A id \in Addrs \cup RegIds :
          setActiveClient(id) =>
              IF ~MapHas(clients, id)
              THEN /\ last'.result = Returned("false")
                   /\ last'.events = <<>>
                   /\ UNCHANGED <<activeClientId, clients, clientDataBuffers,
                                  clientInfoMap, pendingRequests>>
              ELSE /\ last'.result = Returned("true")
                   /\ activeClientId' = id
                   /\ UNCHANGED <<clients, clientDataBuffers, clientInfoMap,
                                  pendingRequests>>]_vars

\* C13 witness: setActiveClient has just returned false while a client is
\* connected and active.
C13_Witness ==
    /\ last.result = Returned("false")
    /\ Len(clients) > 0
    /\ MapHas(clients, activeClientId)

\* C14: every step in which the active client id takes a different value is
\* accompanied by an activeClientChanged event.
C14_ActiveChangeEmitsEvent ==
    [][activeClientId' # activeClientId =>
          \E e \in Range(last'.events) : e.name = "activeClientChanged"]_vars

\* C15: the id the hub assigns to an accepted connection was never assigned
\* to an earlier connection, closed or not.
C15_AcceptIdsFresh ==
    [][\A addr \in Addrs :
          accept(addr) => \A k \in DOMAIN sockets : sockets[k].addr # addr]_vars

IsPrefix(a, b) == Len(a) <= Len(b) /\ a = SubSeq(b, 1, Len(a))

\* C16: objects serialized with newline separators (the last one with or
\* without a trailing newline) and cut into reads at any position reach
\* message processing exactly as sent: each once, in order, none lost.
C16_FramerRoundTrip ==
    stream.framing \in {"lines", "openEnd"} =>
        /\ IsPrefix(delivered, stream.msgs)
        /\ wire = <<>> => delivered = stream.msgs

\* C17: objects sent without any trailing newline reach message processing
\* exactly once and in order however they are grouped into reads.
C17_NewlineFreeFramingAccepted ==
    stream.framing = "bare" =>
        /\ IsPrefix(delivered, stream.msgs)
        /\ wire = <<>> => delivered = stream.msgs

\* C18: newline-terminated requests from the bridge, however grouped into
\* reads, are each dispatched by the editor exactly once in arrival order,
\* and the receive buffer never holds more than one object's bytes.
C18_EditorFramesRequests ==
    stream.framing = "lines" =>
        /\ IsPrefix(delivered, stream.msgs)
        /\ Len(Strip(incompleteData)) <= 2
        /\ wire = <<>> => delivered = stream.msgs

\* C19: a command whose prefix is registered but disabled does not reach
\* Execute, and the reply written to the bridge has top-level status
\* "error", a message naming the disabled prefix, and the request's id.
C19_DisabledPrefixErrorEnvelope ==
    [][\A n \in 1..Len(wire) : \A outcome \in Outcomes :
          (/\ ProcessData(n, TRUE, outcome)
           /\ Len(delivered') > Len(delivered)
           /\ LET c == delivered'[Len(delivered')].command
              IN  /\ Len(c) >= 2
                  /\ c[1] \in DOMAIN commandHandlers
                  /\ ~commandHandlers[c[1]]) =>
              LET request == delivered'[Len(delivered')]
                  reply == replies'[Len(replies')]
              IN  /\ Len(replies') = Len(replies) + 1
                  /\ reply.status = "error"
                  /\ reply.message = <<"Command prefix '", request.command[1],
                                       "' is disabled">>
                  /\ reply.id = request.id
                  /\ \A i \in DOMAIN executed' :
                         executed'[i].id # request.id]_vars

\* C20: while a command prefix is disabled in the CommandRegistry a tool call
\* for it returns an error without invoking handler.execute; while a resource
\* is disabled a read returns an error without invoking fetchResource; a
\* disabled prompt is not among the prompts exposed.
C20_DisabledHandlersHidden ==
    [][/\ \A prefix \in Registered.command : \A outcome \in Outcomes :
             (callTool(prefix, outcome) /\ ~enabledState.command[prefix]) =>
                 /\ last'.result.isError
                 /\ last'.calls = <<>>
       /\ \A name \in Registered.resource : \A outcome \in Outcomes :
             (readResource(name, outcome) /\ ~enabledState.resource[name]) =>
                 /\ last'.result.isError
                 /\ last'.calls = <<>>
       /\ listPrompts =>
             \A name \in Range(last'.result.text) :
                 enabledState.prompt[name]]_vars

\* Which of the dispatchers' refusals a request falls under, with the
\* handler tables as they are.
ErrorCase(request) ==
    LET c == request.command
        handlers == IF request.type = "resource" THEN resourceHandlers
                    ELSE commandHandlers
    IN  IF c = <<>> THEN "missing"
        ELSE IF Len(c) < 2 THEN "malformed"
        ELSE IF c[1] \notin DOMAIN handlers THEN "unknown"
        ELSE IF ~handlers[c[1]] THEN "disabled"
        ELSE "none"

\* C21: for the command dispatcher and for the resource dispatcher, a request
\* with a missing command, a malformed command, an unknown prefix/resource or
\* a disabled prefix/resource is answered with an error reply that echoes
\* the request's id and whose message differs from the message of every
\* other of these cases.
C21_DispatchErrorsDistinctWithId ==
    [][\A n \in 1..Len(wire) : \A outcome \in Outcomes :
          (/\ ProcessData(n, TRUE, outcome)
           /\ Len(delivered') > Len(delivered)
           /\ ErrorCase(delivered'[Len(delivered')]) # "none") =>
              LET request == delivered'[Len(delivered')]
                  reply == replies'[Len(replies')]
              IN  /\ reply.status = "error"
                  /\ reply.id = request.id
                  /\ \A other \in RequestsWithId(request.id) :
                       LET otherReply ==
                               IF other.type = "resource"
                               THEN ProcessResourceRequest(other, TRUE, outcome).reply
                               ELSE ExecuteCommand(other, TRUE, outcome).reply
                       IN  (/\ other.type = request.type
                            /\ ErrorCase(other) \notin {"none", ErrorCase(request)}
                            /\ otherReply.status = "error") =>
                               otherReply.message # reply.message]_vars

\* C22: a command whose handler returns normally is answered with
\* {status: "success", result: <handler output>, id}; a command whose handler
\* throws is answered with top-level status "error", the exception message
\* and the request's id.
C22_HandlerOutcomeEnvelope ==
    [][\A n \in 1..Len(wire) : \A outcome \in Outcomes :
          (/\ ProcessData(n, TRUE, outcome)
           /\ Len(delivered') > Len(delivered)
           /\ delivered'[Len(delivered')].type # "resource"
           /\ ErrorCase(delivered'[Len(delivered')]) = "none") =>
              LET request == delivered'[Len(delivered')]
                  reply == replies'[Len(replies')]
              IN  /\ reply.id = request.id
                  /\ outcome = "returns" =>
                         reply = SuccessReply(HandlerOutput(request.command[1],
                                                            request.command[2]),
                                              request.id)
                  /\ outcome = "throws" =>
                         /\ reply.status = "error"
                         /\ reply.message = <<"Error in ", request.command>>]_vars

TimedOut == <<"Timed out waiting for command execution on main thread">>

OpenConnections == {c \in DOMAIN connections : connections[c] = "open"}

\* C24: the editor holds at most one control connection at any time:
\* accepting a new connection closes the previous one, and every reply is
\* written to the connection that is current when the reply is sent.
C24_OneControlConnection ==
    [][/\ Cardinality(OpenConnections') <= 1
       /\ OpenConnections' \subseteq {client'}
       /\ AcceptTcpClient =>
              /\ client' \notin DOMAIN connections
              /\ connections'[client'] = "open"
              /\ client # 0 => connections'[client] = "closed"
       /\ Len(repliedTo') = Len(replies')
       /\ Len(replies') > Len(replies) =>
              /\ Len(replies') = Len(replies) + 1
              /\ repliedTo'[Len(repliedTo')] = client'
              /\ connections'[client'] = "open"
              /\ SubSeq(repliedTo', 1, Len(repliedTo)) = repliedTo]_vars

\* A second connection replaced an open one that had been replied to, and
\* has been replied to itself.
C24_Witness ==
    /\ Len(connections) = 2
    /\ connections[1] = "closed"
    /\ repliedTo = <<1, 2>>

\* The text with every token {p} of a key p of the map replaced by that
\* key's value, and every other piece as it is.
RECURSIVE Substituted(_, _)
Substituted(text, entries) ==
    IF text = <<>> THEN <<>>
    ELSE (IF \E i \in DOMAIN entries : Head(text) = Ph(entries[i].key)
          THEN entries[CHOOSE i \in DOMAIN entries :
                           Head(text) = Ph(entries[i].key)].value
          ELSE <<Head(text)>>)
           \o Substituted(Tail(text), entries)

\* C25: for every template and every parameter map, also one whose values
\* contain tokens naming other keys, the rendered text has the key's value in
\* every position where the template had {p} for a key p of the map, and
\* every other token unchanged.
C25_TemplateRendering ==
    rendered.done => rendered.text = Substituted(template, params)

\* C26: an object returned by handler.execute with success === false, with
\* or without a non-empty error field, becomes a tool-level error; every
\* other returned object becomes non-error text, the object stringified.
C26_SuccessFalseIsToolError ==
    (last.calls # <<>> /\ returned.kind = "returned") =>
        IF returned.success = "false"
        THEN last.result.isError
        ELSE /\ ~last.result.isError
             /\ last.result.text = Stringify(returned)

\* C27: when the editor answers a tool's request with an error envelope
\* (top-level status "error"), the tool result is a tool-level error that
\* carries the editor's message.
C27_EditorErrorIsToolError ==
    \A reply \in EditorReplies :
        (/\ reply.status = "error"
         /\ last.calls # <<>>
         /\ returned = executeMenuItem(TRUE, Resolved(AsObject(Resolution(reply))))) =>
            /\ last.result.isError
            /\ last.result.text = <<"Error: ">> \o reply.message

\* Two letters that differ at most in case.
SameLetter(a, b) ==
    \/ a = b
    \/ a \in DOMAIN LowerCase /\ LowerCase[a] = b
    \/ b \in DOMAIN LowerCase /\ LowerCase[b] = a
\* The name occurs in the text, case ignored.
ContainsIgnoringCase(text, name) ==
    \E i \in 0..(Len(text) - Len(name)) :
        \A j \in 1..Len(name) : SameLetter(text[i + j], name[j])
\* The positions in the client map of the clients with a valid product name
\* that contains the name.
Matching(name) ==
    {i \in DOMAIN clients :
         /\ clients[i].id \in DOMAIN clientInfoMap
         /\ LET productName == clientInfoMap[clients[i].id].productName
            IN  /\ productName \notin {<<>>, Unknown, UnknownProject}
                /\ ContainsIgnoringCase(productName, name)}

\* C28: connectToProject(name) makes active the first client, in the order of
\* the client map, whose product name is valid and contains the name, case
\* ignored; with no such client it returns an error and the active client
\* stays. Clients with an invalid product name stay connected.
C28_ConnectToProjectFirstMatch ==
    [][\A name \in ProjectNames :
          connectToProject(name) =>
              /\ IF Matching(name) = {}
                 THEN /\ last'.result.isError
                      /\ activeClientId' = activeClientId
                 ELSE /\ ~last'.result.isError
                      /\ \E i \in Matching(name) :
                             /\ \A j \in Matching(name) : i <= j
                             /\ activeClientId' = clients[i].id
              /\ clients' = clients
              /\ clientInfoMap' = clientInfoMap
              /\ sockets' = sockets]_vars

\* Two clients match the name and the first of them was made active in
\* place of the other.
C28_Witness ==
    /\ Len(clients) = 2
    /\ \A i \in 1..2 : clients[i].id \in DOMAIN clientInfoMap
    /\ clientInfoMap[clients[1].id].productName = <<"d", "e", "m", "o", "2">>
    /\ clientInfoMap[clients[2].id].productName = <<"D", "e", "m", "o">>
    /\ activeClientId = clients[1].id
    /\ last.events = <<Event("activeClientChanged", clients[1].id)>>
    /\ ~last.result.isError

\* C29: a call of unity_listClients sends exactly one UDP announce of type
\* "listClients", and what it returns lists exactly the clients with a valid
\* product name that the hub holds when it returns (after the snapshot was
\* cleared and the wait has passed, those that answered the announce).
C29_ListClientsAnnounces ==
    [][listClients =>
          /\ last'.events = <<sendInitialBroadcast("listClients")>>
          /\ \A i \in DOMAIN clients' :
                 clients'[i].id \in Range(last'.result.text) <=>
                     /\ clients'[i].id \in DOMAIN clientInfoMap'
                     /\ clientInfoMap'[clients'[i].id].productName
                            \notin {<<>>, Unknown, UnknownProject}]_vars

\* C30: every entry of the pending-request map has an armed 30 s timer, so
\* that with no response it is removed when the timer fires; no sequence of
\* hub operations leaves an entry without one.
C30_PendingHasTimer ==
    \A id \in pendingRequests : id \in timers

\* ------------------------------------------------ the correlation router
\* The hub once start() has resolved, fed complete lines by its clients:
\* responses whose result is an object, responses whose result is the empty
\* string, error envelopes, registrations and messages with no id.
SuccessEmpty(id) == Tok("json", NULL, "success", "", id, NULL, NULL)
Responses == {Success(i) : i \in ReqIds}
                 \cup {SuccessEmpty(i) : i \in ReqIds}
                 \cup {ErrorEnvelope(i) : i \in ReqIds}
RouterMsgs == Responses \cup {Registration(x) : x \in RegIds} \cup {Notification}
RouterInit ==
    /\ server = "listening"
    /\ sockets = <<>>
    /\ clients = <<>>
    /\ clientDataBuffers = EmptyFn
    /\ clientInfoMap = EmptyFn
    /\ activeClientId = NULL
    /\ pendingRequests = {}
    /\ requestId = 0
    /\ target = EmptyFn
    /\ writeCbs = {}
    /\ timers = {}
    /\ completions = EmptyFn
    /\ last = Out(NoResult, <<>>, <<>>)
    /\ IdleFraming /\ IdleEditor /\ IdleSurface
RouterNext ==
    \/ \E addr \in Addrs : accept(addr)
    \/ \E s \in DOMAIN sockets, m \in RouterMsgs : data(s, <<m, NL>>)
    \/ sendRequest
    \/ \E clientId \in Addrs \cup RegIds : setActiveClient(clientId)
RouterSpec == RouterInit /\ [][RouterNext]_vars

\* C31: a response whose id is pending removes the entry and resolves it,
\* with the message's result when status is "success" and a result is present
\* and with the whole message otherwise (error envelopes resolve); a response
\* whose id is not pending changes neither the client map, the client info,
\* the active id nor the pending requests, and makes no call and emits no
\* event; this holds for every sending socket and every active client.
C31_CorrelationByIdAlone ==
    [][\A s \in DOMAIN sockets : \A m \in Responses :
          data(s, <<m, NL>>) =>
              IF m.id \in pendingRequests
              THEN /\ pendingRequests' = pendingRequests \ {m.id}
                   /\ last'.calls =
                          <<Call(m.id, "resolve",
                                 IF m.status = "success" /\ m.result # NULL
                                 THEN "result" ELSE "response")>>
                   /\ last'.events = <<>>
              ELSE /\ UNCHANGED <<clients, clientInfoMap, activeClientId,
                                  pendingRequests, completions>>
                   /\ last'.calls = <<>>
                   /\ last'.events = <<>>]_vars

\* The ids under which the client map holds socket s at present.
CurrentIds(s) == {clients[i].id : i \in {j \in 1..Len(clients) : clients[j].sock = s}}

\* C32: a message with no id that is not a registration, sent by a connected
\* client, is emitted as one 'message' event that carries the id the client
\* map holds the sender under at that moment, and it resolves, rejects and
\* removes no pending request.
C32_MessageEventCarriesCurrentId ==
    [][\A s \in DOMAIN sockets :
          (data(s, <<Notification, NL>>) /\ CurrentIds(s) # {}) =>
              /\ Len(last'.events) = 1
              /\ last'.events[1].name = "message"
              /\ last'.events[1].clientId \in CurrentIds(s)
              /\ last'.calls = <<>>
              /\ UNCHANGED <<pendingRequests, completions>>]_vars

\* The number a request id spells.
Num(id) == CHOOSE n \in DOMAIN Digits : Digits[n] = id

\* C33: a request sendRequest has taken on (it passed the guard and got an
\* id) is written once, to the socket the client map holds under the id that
\* is active at that moment; on one socket the ids are written in increasing
\* order; and no later operation (setActiveClient included) writes it again
\* or to another socket.
C33_WrittenOnceToActiveClient ==
    [][\A id \in DOMAIN target' :
          IF id \in DOMAIN target
          THEN target'[id] = target[id]
          ELSE /\ target'[id] # 0
               /\ target'[id] = MapGet(clients, activeClientId)
               /\ \A j \in DOMAIN target :
                      target[j] = target'[id] => Num(j) < Num(id)]_vars

\* --------------------------------------------- lines that are not JSON
\* The hub after start(), two accepted connections and one sendRequest to the
\* first of them, whose peer is about to send a stream of newline-terminated
\* lines, some of which are not JSON; the reads cut it anywhere between an
\* object, a garbage text and a newline.
GarbledMsgs == {Registration("proj-x"), Notification, Success(ToStr(1)), BAD}
RECURSIVE Lines(_)
Lines(msgs) ==
    IF msgs = <<>> THEN <<>> ELSE <<Head(msgs), NL>> \o Lines(Tail(msgs))
GarbledInit ==
    /\ server = "listening"
    /\ sockets = [i \in 1..2 |-> [addr |-> AddrSeq[i], state |-> "open"]]
    /\ clients = [i \in 1..2 |-> [id |-> AddrSeq[i], sock |-> i]]
    /\ clientDataBuffers = [a \in Addrs |-> <<>>]
    /\ clientInfoMap = EmptyFn
    /\ activeClientId = AddrSeq[1]
    /\ pendingRequests = {ToStr(1)}
    /\ requestId = 1
    /\ target = FnSet(EmptyFn, ToStr(1), 1)
    /\ writeCbs = {ToStr(1)}
    /\ timers = {ToStr(1)}
    /\ completions = FnSet(EmptyFn, ToStr(1), 0)
    /\ last = Out(NoResult, <<>>, <<>>)
    /\ \E msgs \in StreamsOf(GarbledMsgs) :
           /\ stream = [msgs |-> msgs, framing |-> "lines"]
           /\ wire = Lines(msgs)
    /\ delivered = <<>>
    /\ IdleEditor
    /\ IdleSurface
GarbledNext == \E n \in 1..Len(wire) : feed(n)
GarbledSpec == GarbledInit /\ [][GarbledNext]_vars

\* C34: a read that carries nothing but lines that are not JSON (and
\* newlines) leaves the client map, the active id and the pending requests
\* as they were and makes no call and emits no event; no read closes the
\* connection or touches the other client's record and buffer; and once the
\* stream has been read, the well-formed objects of it, and only these, have
\* been processed, in the order sent.
WellFormed(msgs) == SelectSeq(msgs, LAMBDA m : m # BAD)
C35_FailedStartLeavesHubStopped ==
    [][\A bindOk \in BOOLEAN :
          start(bindOk) =>
              /\ (server = NULL /\ ~bindOk) =>
                     /\ last'.result.isError
                     /\ server' = NULL
              /\ (server # "listening" /\ bindOk) => server' = "listening"
              /\ server = "listening" =>
                     /\ server' = "listening"
                     /\ ~last'.result.isError
                     /\ last'.events = <<>>]_vars

\* C36: a registration sent over one socket leaves the record of every
\* other connected client in the client map, under its id and with its own
\* socket, also when the id registered is that other client's current id.
C36_RegistrationKeepsOtherClients ==
    [][\A s \in DOMAIN sockets : \A x \in RegIds :
          data(s, <<Registration(x), NL>>) =>
              \A i \in 1..Len(clients) :
                  clients[i].sock # s =>
                      \E j \in 1..Len(clients') : clients'[j] = clients[i]]_vars

\* C37: when the editor accepts a control connection after an earlier one,
\* nothing that was buffered from the earlier connection is left in
\* incompleteData, so that the first read of the new connection is parsed
\* on its own.
C37_ReconnectDropsPartialData ==
    [][(AcceptTcpClient /\ Len(connections) > 0) => incompleteData' = <<>>]_vars

\* C40: a command that was answered with the time-out error, its 5 s wait
\* having expired, is not executed afterwards: no Execute call is ever made
\* for its request.
C40_TimedOutNeverExecuted ==
    \A i \in DOMAIN replies :
        (replies[i].status = "error" /\ replies[i].message = TimedOut) =>
            \A j \in DOMAIN executed : executed[j].id # replies[i].id

\* ------------------------------------------- the editor's server thread
\* McpServer.Start and Stop, called on the main thread, and RunServer, run
\* by the thread each Start creates. The fields running, listener and client
\* are shared by all of them without a lock, so the statements of the
\* threads interleave. How many times Start is called over a run:
MaxThreads == 2

threadFrame == <<server, sockets, clients, clientDataBuffers, clientInfoMap,
                 activeClientId, pendingRequests, requestId, target, writeCbs,
                 timers, completions, last, framingVars, surfaceVars,
                 incompleteData, commandHandlers, mainThreadQueue, replies,
                 executed, resourceHandlers, repliedTo>>

At(t, pc) == serverThreads[t].pc = pc
Goto(t, pc) == [serverThreads EXCEPT ![t].pc = pc]
\* client?.Close() and listener?.Stop() on whatever the fields refer to.
CloseClient(conns) ==
    IF client # 0 THEN [conns EXCEPT ![client] = "closed"] ELSE conns
StopListener(ls) ==
    IF listener # 0 THEN [ls EXCEPT ![listener].state = "stopped"] ELSE ls

\* Start(), up to serverThread.Start(token): a new token source and a new
\* thread. It returns at once when running is set.
StartServerThread ==
    /\ mainThread = "idle"
    /\ ~running
    /\ Len(serverThreads) < MaxThreads
    /\ serverThreads' = Append(serverThreads, [pc |-> "start", cancelled |-> FALSE])
    /\ mainThread' = "Start"
    /\ UNCHANGED <<threadFrame, running, listener, listeners, connections,
                   client, acceptedBy>>

\* Start(), the statement after serverThread.Start(token): running = true.
StartSetRunning ==
    /\ mainThread = "Start"
    /\ running' = TRUE
    /\ mainThread' = "idle"
    /\ UNCHANGED <<threadFrame, listener, listeners, serverThreads,
                   connections, client, acceptedBy>>

\* Stop(), up to the Join: running = false, the current token cancelled, the
\* client closed and the listener stopped, both fields nulled.
StopShutdown ==
    /\ mainThread = "idle"
    /\ running' = FALSE
    /\ serverThreads' = IF serverThreads = <<>> THEN serverThreads
                        ELSE [serverThreads EXCEPT
                                 ![Len(serverThreads)].cancelled = TRUE]
    /\ connections' = CloseClient(connections)
    /\ client' = 0
    /\ listeners' = StopListener(listeners)
    /\ listener' = 0
    /\ mainThread' = "Stop"
    /\ UNCHANGED <<threadFrame, acceptedBy>>

\* Stop(), serverThread.Join(1000): it returns when the thread has ended, or
\* after 1 s, which only a thread blocked in the 5 s wait of ExecuteCommand
\* outlasts (the loop looks at the token every 10 ms).
StopJoin ==
    /\ mainThread = "Stop"
    /\ serverThreads # <<>> =>
           serverThreads[Len(serverThreads)].pc \in {"done", "waiting"}
    /\ mainThread' = "idle"
    /\ UNCHANGED <<threadFrame, running, listener, listeners, serverThreads,
                   connections, client, acceptedBy>>

\* RunServer: this.listener = new TcpListener(...); this.listener.Start().
\* The bind fails while another listener of this server holds the port; the
\* exception is caught and the finally block runs.
RunServerListen(t) ==
    /\ At(t, "start")
    /\ LET bindOk == \A i \in DOMAIN listeners : listeners[i].state # "listening"
       IN  /\ listeners' = Append(listeners,
                                  [owner |-> t,
                                   state |-> IF bindOk THEN "listening"
                                             ELSE "created"])
           /\ serverThreads' = Goto(t, IF bindOk THEN "loop" ELSE "finally")
    /\ listener' = Len(listeners) + 1
    /\ UNCHANGED <<threadFrame, running, mainThread, connections, client,
                   acceptedBy>>

\* while (this.running && !cancellationToken.IsCancellationRequested)
RunServerLoopTest(t) ==
    /\ At(t, "loop")
    /\ serverThreads' = Goto(t, IF running /\ ~serverThreads[t].cancelled
                                THEN "accept" ELSE "finally")
    /\ UNCHANGED <<threadFrame, running, listener, listeners, mainThread,
                   connections, client, acceptedBy>>

\* if (this.listener.Pending()) { client?.Close(); client = Accept(); }
\* A null listener field or a stopped listener makes Pending() throw, which
\* the outer catch takes to the finally block.
RunServerAccept(t, pending) ==
    /\ At(t, "accept")
    /\ IF listener = 0 \/ listeners[listener].state # "listening"
       THEN /\ serverThreads' = Goto(t, "finally")
            /\ UNCHANGED <<connections, client, acceptedBy>>
       ELSE /\ serverThreads' = Goto(t, "read")
            /\ IF pending /\ Len(connections) < MaxEditorConns
               THEN /\ connections' = Append(CloseClient(connections), "open")
                    /\ client' = Len(connections) + 1
                    /\ acceptedBy' = Append(acceptedBy, t)
               ELSE UNCHANGED <<connections, client, acceptedBy>>
    /\ UNCHANGED <<threadFrame, running, listener, listeners, mainThread>>

\* The client branch of the loop: a connected client with data is read and
\* ProcessData answers it, waiting up to 5 s for the main thread (blocks);
\* a client that is no longer connected is dropped.
RunServerRead(t, blocks) ==
    /\ At(t, "read")
    /\ IF client # 0 /\ connections[client] = "open"
       THEN /\ serverThreads' = Goto(t, IF blocks THEN "waiting" ELSE "sleep")
            /\ UNCHANGED client
       ELSE /\ serverThreads' = Goto(t, "sleep")
            /\ client' = 0
    /\ UNCHANGED <<threadFrame, running, listener, listeners, mainThread,
                   connections, acceptedBy>>

\* waitHandle.WaitOne(5000) returns and ProcessData with it.
WaitExpires(t) ==
    /\ At(t, "waiting")
    /\ serverThreads' = Goto(t, "sleep")
    /\ UNCHANGED <<threadFrame, running, listener, listeners, mainThread,
                   connections, client, acceptedBy>>

\* Thread.Sleep(10); cancellationToken.ThrowIfCancellationRequested()
RunServerSleep(t) ==
    /\ At(t, "sleep")
    /\ serverThreads' = Goto(t, IF serverThreads[t].cancelled
                                THEN "finally" ELSE "loop")
    /\ UNCHANGED <<threadFrame, running, listener, listeners, mainThread,
                   connections, client, acceptedBy>>

\* finally { client?.Close(); client = null; listener?.Stop(); listener = null; }
RunServerFinally(t) ==
    /\ At(t, "finally")
    /\ connections' = CloseClient(connections)
    /\ client' = 0
    /\ listeners' = StopListener(listeners)
    /\ listener' = 0
    /\ serverThreads' = Goto(t, "done")
    /\ UNCHANGED <<threadFrame, running, mainThread, acceptedBy>>

ThreadNext ==
    \/ StartServerThread
    \/ StartSetRunning
    \/ StopShutdown
    \/ StopJoin
    \/ \E t \in DOMAIN serverThreads :
           \/ RunServerListen(t)
           \/ RunServerLoopTest(t)
           \/ \E pending \in BOOLEAN : RunServerAccept(t, pending)
           \/ \E blocks \in BOOLEAN : RunServerRead(t, blocks)
           \/ WaitExpires(t)
           \/ RunServerSleep(t)
           \/ RunServerFinally(t)

\* The server starts from the editor's initial state.
ThreadSpec == Init /\ [][ThreadNext]_vars

\* C38: the finally block of a server thread that an earlier Start created
\* neither stops nor nulls a listener another thread created, and neither
\* closes nor nulls a client another thread accepted; so the server started
\* last keeps its listener until the next Stop().
C38_OldThreadLeavesNewServerAlone ==
    [][\A t \in DOMAIN serverThreads :
          (RunServerFinally(t) /\ t < Len(serverThreads)) =>
              /\ (listener # 0 /\ listeners[listener].owner # t) =>
                     UNCHANGED <<listener, listeners>>
              /\ (client # 0 /\ acceptedBy[client] # t) =>
                     UNCHANGED <<client, connections>>]_vars

\* C39: once Start() has returned with running set, and as long as Stop()
\* has not been called, the server thread has not left its loop: it is
\* neither in the finally block nor ended.
C39_RunningMeansThreadInLoop ==
    (/\ Len(serverThreads) = 1
     /\ mainThread = "idle"
     /\ running
     /\ ~serverThreads[1].cancelled) =>
        serverThreads[1].pc \notin {"finally", "done"}

====
